---- MODULE Spec2Model ----
(***************************************************************************)
(* Model of the ABI agent portal: the tool functions of tools.py and the   *)
(* conversational loop, authentication and chat page of app.py.            *)
(*                                                                         *)
(* Python values are modelled as follows.  A text produced by an f-string  *)
(* is a record whose fields are the interpolated values (kind names the    *)
(* template).  A call that may raise is an outcome record: Return(v) or    *)
(* Raise(cls, msg), where cls is the root class the fault derives from     *)
(* ("Exception", or "BaseException" for SystemExit, KeyboardInterrupt and  *)
(* GeneratorExit, which do not derive from Exception).                     *)
(***************************************************************************)
EXTENDS Integers, Sequences, FiniteSets, TLC

\* ---------------------------------------------------------------- bounds
\* Parts in one model response.
MaxParts == 2
\* Complete turns kept in one role's history before input stops.
MaxTurns == 2
\* Rows of orders.csv when the customer's tools read it.
MaxOrders == 2
\* Rows of orders.csv when the delay audit reads it.
MaxAuditOrders == 4
\* Rows of revenue.csv when the revenue audit reads it.
MaxRevenueRows == 5
\* Rows of a table that is formatted, and the largest display cap besides
\* the default one.
MaxRows == 3
MaxCap == 3

\* ----------------------------------------------------------------- state
\* The tables the tool functions have had in memory: those left by the call
\* before the last one, those the last call loaded and those it left.
VARIABLE memory

\* ---------------------------------------------------------------- values
None == "None"

Return(v) == [raised |-> FALSE, value |-> v]
Raise(cls, msg) == [raised |-> TRUE, cls |-> cls, msg |-> msg]

\* `except Exception` catches a fault iff its class derives from Exception.
except_Exception_nothing(cls) == FALSE
except_Exception(cls) == cls = "Exception"

\* ------------------------------------------------------------- data files
\* What the four CSV files are when load_data reads them: whether they can be
\* read ("ok", "missing", "malformed"), and the rows of orders.csv and
\* revenue.csv (customers.csv and products.csv are the same throughout).
Files(state, orders, revenue) ==
  [state |-> state, orders |-> orders, revenue |-> revenue]

customers_csv ==
  << [customer_id |-> "CUST_001", name |-> "Asha", email |-> "asha@x.io", region |-> "North"],
     [customer_id |-> "CUST_002", name |-> "Ben", email |-> "ben@x.io", region |-> "South"],
     [customer_id |-> "CUST_003", name |-> "Chen", email |-> "chen@x.io", region |-> "East"],
     [customer_id |-> "CUST_004", name |-> "Dana", email |-> "dana@x.io", region |-> "West"] >>

products_csv ==
  << [product_id |-> "P1", name |-> "Lamp", category |-> "Home", price |-> 20, stock_level |-> 5],
     [product_id |-> "P2", name |-> "Desk", category |-> "Office", price |-> 150, stock_level |-> 2] >>

\* Dates are day numbers; NaT is a missing date (est_delivery is also coerced
\* to NaT when unparseable).  NaN is a missing number or text of a joined row.
NaT == -1
NaN == -1

orders_csv ==
  << [order_id |-> "O1", customer_id |-> "CUST_001", product_id |-> "P1",
      status |-> "Delivered", order_date |-> 1, est_delivery |-> 5],
     [order_id |-> "O2", customer_id |-> "CUST_001", product_id |-> "P2",
      status |-> "Shipped", order_date |-> 2, est_delivery |-> 6],
     [order_id |-> "O3", customer_id |-> "CUST_002", product_id |-> "P9",
      status |-> "Pending", order_date |-> 8, est_delivery |-> NaT],
     [order_id |-> "O4", customer_id |-> "CUST_003", product_id |-> "P1",
      status |-> "Pending", order_date |-> NaT, est_delivery |-> 12] >>

revenue_csv ==
  << [revenue_id |-> "R1", order_id |-> "O1", amount |-> 20, date |-> 1, payment_method |-> "card"] >>

FileStates ==
  {Files(state, orders_csv, revenue_csv) : state \in {"ok", "missing", "malformed"}}

\* The text of the exception a failed load raises, the {e} of the error
\* strings: the system's text for a missing file; for a malformed file the
\* parser's text, which for a date that cannot be parsed quotes the cell.
UnparsableCells == {"soon", "ALERT", "CRITICAL"}
UnparsableDate(cell) ==
  [state |-> "malformed", orders |-> orders_csv, revenue |-> revenue_csv,
   e |-> [text |-> "Unknown datetime string format, unable to parse", cell |-> cell]]
UnparsableFiles == {UnparsableDate(cell) : cell \in UnparsableCells}

exception_text(fs) ==
  IF "e" \in DOMAIN fs THEN fs.e
  ELSE IF fs.state = "missing"
    THEN [text |-> "[Errno 2] No such file or directory", filename |-> "customers.csv"]
    ELSE [text |-> "Error tokenizing data"]

\* No table is in memory.
NoTables == [kind |-> "no tables"]

load_data_kept(fs) ==
  IF memory.tables # NoTables THEN memory.tables
  ELSE
  CASE fs.state = "ok" ->
         [customers_df |-> customers_csv, orders_df |-> fs.orders,
          products_df |-> products_csv, revenue_df |-> fs.revenue]
    [] fs.state = "missing" ->
         [kind |-> "Error: Required data file not found", e |-> exception_text(fs)]
    [] OTHER -> [kind |-> "Error loading data", e |-> exception_text(fs)]
\* load_data: the four files are read anew at every call.
load_data(fs) ==
  CASE fs.state = "ok" ->
         [customers_df |-> customers_csv, orders_df |-> fs.orders,
          products_df |-> products_csv, revenue_df |-> fs.revenue]
    [] fs.state = "missing" ->
         [kind |-> "Error: Required data file not found", e |-> exception_text(fs)]
    [] OTHER -> [kind |-> "Error loading data", e |-> exception_text(fs)]

\* isinstance(data, str): load_data reported a failure.
is_load_error(data) == "kind" \in DOMAIN data

\* datetime.now(): the day, and tod = 0 exactly at midnight, 1 later in the day.
Clock == [day |-> 10, tod |-> 1]

\* The instants datetime.now() is read at: midnight of the day and later.
Clocks == {[day |-> Clock.day, tod |-> tod] : tod \in {0, 1}}

\* ------------------------------------------------------- sequence helpers
RECURSIVE Flatten(_)
Flatten(ss) == IF ss = << >> THEN << >> ELSE Head(ss) \o Flatten(Tail(ss))

\* The sequences over S of length 0..n.
RECURSIVE SeqsUpTo(_, _)
SeqsUpTo(S, n) ==
  IF n = 0 THEN {<< >>}
  ELSE LET shorter == SeqsUpTo(S, n - 1)
       IN shorter \cup {Append(q, x) : q \in shorter, x \in S}

\* ----------------------------------------------------- orders.csv contents
\* Tables of orders.csv: order ids are unique, every order_date is a date,
\* est_delivery is missing, yesterday, today or tomorrow, and customer_id need
\* not occur in customers.csv (CUST_999 does not).  Orders at even positions
\* name a product that products.csv lacks.
OrderIds == << "O1", "O2", "O3", "O4", "O5", "O6" >>
Statuses == {"Pending", "Shipped", "Delivered", "Cancelled"}
EstDeliveries == {NaT, Clock.day - 1, Clock.day, Clock.day + 1}

orders_table(rows) ==
  [i \in 1..Len(rows) |->
     [order_id |-> OrderIds[i], customer_id |-> rows[i].customer_id,
      product_id |-> IF i % 2 = 1 THEN "P1" ELSE "P9",
      status |-> rows[i].status, order_date |-> 1,
      est_delivery |-> rows[i].est_delivery]]

OrdersTables ==
  {orders_table(rows) :
     rows \in SeqsUpTo([customer_id : {"CUST_001", "CUST_999"}, status : Statuses,
                        est_delivery : EstDeliveries], MaxOrders)}

\* The files as the customer's tools find them.
CustomerFiles ==
  {Files("ok", orders, revenue_csv) : orders \in OrdersTables}
    \cup {Files(state, << >>, revenue_csv) : state \in {"missing", "malformed"}}

\* Tables of orders.csv for the delay audit: Pending orders of CUST_001 due
\* yesterday, today or at no known date, Delivered and Cancelled ones due
\* yesterday, and overdue Pending orders of CUST_999, whom customers.csv
\* lacks.
AuditOrderRows ==
  [customer_id : {"CUST_001"}, status : {"Pending"},
   est_delivery : EstDeliveries \ {Clock.day + 1}]
    \cup [customer_id : {"CUST_001"}, status : {"Delivered", "Cancelled"},
          est_delivery : {Clock.day - 1}]
    \cup {[customer_id |-> "CUST_999", status |-> "Pending",
           est_delivery |-> Clock.day - 1]}

AuditOrdersTables ==
  {orders_table(rows) : rows \in SeqsUpTo(AuditOrderRows, MaxAuditOrders)}

\* ---------------------------------------------------- revenue.csv contents
\* len(revenue_df) < 5: too few rows for the anomaly detection.
MinRevenueRows == 5

\* Tables of revenue.csv: one row per order, in any order of their dates.
revenue_table(dates) ==
  [i \in 1..Len(dates) |->
     [revenue_id |-> i, order_id |-> OrderIds[i], amount |-> 100 * i,
      date |-> dates[i], payment_method |-> "card"]]

RevenueTables ==
  {revenue_table(dates) :
     dates \in {d \in SeqsUpTo(1..3, MaxRevenueRows) : Len(d) >= MinRevenueRows - 1}}

\* model.predict(X) of the fitted IsolationForest: 1 or -1 (outlier) per row.
Predictions(n) == [1..n -> {1, -1}]

\* The files as the audits find them.
AuditFiles ==
  {Files("ok", orders, revenue_csv) : orders \in AuditOrdersTables}
    \cup {Files(state, << >>, revenue_csv) : state \in {"missing", "malformed"}}
RevenueFiles ==
  {Files("ok", orders_csv, revenue) : revenue \in RevenueTables}
    \cup {Files(state, orders_csv, << >>) : state \in {"missing", "malformed"}}

\* The identifiers get_customer_orders and check_customer_order_status get.
LookupIds == {"CUST_001", "cust_001", "CUST_002", "CUST_999", " cust_999 "}

\* ---------------------------------------------------------- customer tool
strip_upper_identity(s) == s
\* str(customer_id).strip().upper() on the identifiers that occur.
strip_upper(s) ==
  CASE s = " cust_002 " -> "CUST_002"
    [] s = "cust_001" -> "CUST_001"
    [] s = " cust_999 " -> "CUST_999"
    [] OTHER -> s

orders_of_anyone(orders_df, clean_id) == orders_df
\* orders_df[orders_df['customer_id'] == clean_id]
orders_of(orders_df, clean_id) ==
  SelectSeq(orders_df, LAMBDA o : o.customer_id = clean_id)

merge_inner(left, products_df) ==
  LET rowsFor(o) ==
        LET ms == SelectSeq(products_df, LAMBDA p : p.product_id = o.product_id)
        IN [i \in 1..Len(ms) |->
              [order |-> o, name |-> ms[i].name, category |-> ms[i].category,
               price |-> ms[i].price]]
  IN Flatten([i \in 1..Len(left) |-> rowsFor(left[i])])
\* left.merge(products_df, on='product_id', how='left'): per left row, one row
\* per matching product in product order, or one row of NaN when none matches.
merge_left(left, products_df) ==
  LET rowsFor(o) ==
        LET ms == SelectSeq(products_df, LAMBDA p : p.product_id = o.product_id)
        IN IF ms = << >>
             THEN << [order |-> o, name |-> "nan", category |-> "nan", price |-> NaN] >>
             ELSE [i \in 1..Len(ms) |->
                     [order |-> o, name |-> ms[i].name, category |-> ms[i].category,
                      price |-> ms[i].price]]
  IN Flatten([i \in 1..Len(left) |-> rowsFor(left[i])])

\* One rendered order block (tools.py lines 226-243).
order_block(row, now) ==
  LET est_delivery == row.order.est_delivery
      late == /\ est_delivery # NaT
              /\ row.order.status # "Delivered"
              /\ \/ now.day > est_delivery
                 \/ now.day = est_delivery /\ now.tod > 0
  IN [order_id |-> row.order.order_id,
      product |-> row.name, category |-> row.category, price |-> row.price,
      status |-> row.order.status, order_date |-> row.order.order_date,
      est_delivery |-> est_delivery,
      delayed |-> late,
      days_late |-> IF late THEN now.day - est_delivery ELSE 0]

get_customer_orders(customer_id, fs, now) ==
  LET data == load_data(fs) IN
  IF is_load_error(data) THEN Return(data)
  ELSE
    LET clean_id == strip_upper(customer_id)
        customer == SelectSeq(data.customers_df, LAMBDA c : c.customer_id = clean_id)
        customer_orders ==
          merge_left(orders_of(data.orders_df, clean_id), data.products_df)
    IN IF customer = << >>
         THEN Return([kind |-> "ERROR: Customer ID not found", id |-> clean_id])
       ELSE IF customer_orders = << >>
         THEN Return([kind |-> "no orders", name |-> customer[1].name])
       ELSE IF \E i \in 1..Len(customer_orders) : customer_orders[i].order.order_date = NaT
         THEN Raise("Exception", "NaTType does not support strftime")
       ELSE Return([kind |-> "orders", name |-> customer[1].name, id |-> clean_id,
                    email |-> customer[1].email, region |-> customer[1].region,
                    total |-> Len(customer_orders),
                    blocks |-> [i \in 1..Len(customer_orders) |->
                                  order_block(customer_orders[i], now)]])

\* ------------------------------------------------------------- formatters
\* A cell is the Python value of row[col]: Num(t, v) for a "float", an "int"
\* or a "Timestamp" (a float whose v is NaN is nan, a Timestamp whose v is NaT
\* is NaT), Str(t, s) for a "str" or for None (t = "NoneType").  A column is
\* [name, dtype].  A DataFrame is [type, index, columns, rows]: rows[i][j] is
\* the cell of row i in column j and index[i] the label of row i, an int or a
\* str.  A Series is [type, name, dtype, index, values].
Num(t, v) == [t |-> t, v |-> v]
Str(t, s) == [t |-> t, s |-> s]
Column(name, dtype) == [name |-> name, dtype |-> dtype]
DataFrame(index, columns, rows) ==
  [type |-> "DataFrame", index |-> index, columns |-> columns, rows |-> rows]
Series(name, dtype, index, values) ==
  [type |-> "Series", name |-> name, dtype |-> dtype, index |-> index,
   values |-> values]

\* max_rows=10 of format_dataframe_output.
DefaultMaxRows == 10

\* The display caps: max_rows is a number of rows.
Caps == 0..MaxCap \cup {DefaultMaxRows}

\* Two layouts: numeric columns only, and columns of every dtype.
AmountQty == << Column("amount", "float64"), Column("qty", "int64") >>
ProductDates ==
  << Column("name", "object"), Column("order_date", "datetime64"),
     Column("price", "float64"), Column("stock_level", "int64") >>

AmountQtyRows == {<< Num("float", a), Num("int", 7) >> : a \in {1234, NaN}}
ProductDatesRows ==
  {<< n, Num("Timestamp", d), Num("float", p), Num("int", 7) >> :
     n \in {Str("str", "Lamp"), Str("NoneType", None)}, d \in {3, NaT}, p \in {20, NaN}}

\* The labels of n rows: a RangeIndex, the int labels a filter leaves, or str
\* labels.
Indexes(n) ==
  {[i \in 1..n |-> Num("int", i - 1)], [i \in 1..n |-> Num("int", 2 * i)],
   [i \in 1..n |-> Str("str", OrderIds[i])]}

\* What format_dataframe_output is given: frames of both layouts, a Series
\* of amounts, and a value that is neither.
Frames ==
  UNION {{DataFrame(index, AmountQty, rows) : index \in Indexes(Len(rows))} :
           rows \in SeqsUpTo(AmountQtyRows, MaxRows)}
    \cup UNION {{DataFrame(index, ProductDates, rows) : index \in Indexes(Len(rows))} :
                  rows \in SeqsUpTo(ProductDatesRows, MaxRows)}
    \cup UNION {{Series("amount", "float64", index, values) :
                   index \in Indexes(Len(values))} :
                  values \in SeqsUpTo({Num("float", 1234), Num("float", NaN)}, MaxRows)}
    \cup {[type |-> "list"]}

\* series.to_frame(): one column, named as the Series.
to_frame(series) ==
  DataFrame(series.index, << Column(series.name, series.dtype) >>,
            [i \in 1..Len(series.values) |-> << series.values[i] >>])

head_all_rows(list, n) == list
\* df.head(n) for n >= 0: the first n rows, all rows when there are fewer.
head(list, n) == SubSeq(list, 1, IF Len(list) < n THEN Len(list) ELSE n)

\* 'amount' in col.lower() or 'price' in col.lower() or 'revenue' in col.lower()
is_money(col) == col \in {"amount", "price", "revenue"}

\* row[col] of iterrows(): the row is one Series over all columns, so the ints
\* of a frame whose columns are all numeric and not all int64 become floats.
row_value(columns, cell) ==
  IF /\ cell.t = "int"
     /\ \A j \in 1..Len(columns) : columns[j].dtype \in {"int64", "float64"}
     /\ \E j \in 1..Len(columns) : columns[j].dtype = "float64"
    THEN Num("float", cell.v)
    ELSE cell

\* One "  • col: value" line (tools.py lines 105-117).
format_value(col, columns, cell) ==
  LET value == row_value(columns, cell) IN
  IF col.dtype = "datetime64"
    THEN IF value.v # NaT
           THEN [col |-> col.name, fmt |-> "%Y-%m-%d", v |-> value.v]
           ELSE [col |-> col.name, fmt |-> "N/A"]
  ELSE IF value.t = "float"
    THEN [col |-> col.name, fmt |-> IF is_money(col.name) THEN "$,.2f" ELSE ".2f",
          v |-> value.v]
  ELSE IF value.t = "NoneType" \/ (value.t = "Timestamp" /\ value.v = NaT)
    THEN [col |-> col.name, fmt |-> "N/A"]
  ELSE IF value.t = "str"
    THEN [col |-> col.name, fmt |-> "str", s |-> value.s]
  ELSE [col |-> col.name, fmt |-> "str", v |-> value.v]

\* "▸ Record {idx + 1 if isinstance(idx, int) else idx}:"
record_label(idx) == IF idx.t = "int" THEN Num("int", idx.v + 1) ELSE idx

format_dataframe_output(df0, max_rows) ==
  LET df == IF df0.type = "Series" THEN to_frame(df0) ELSE df0 IN
  IF df.type # "DataFrame" THEN [kind |-> "str", of |-> df.type]
  ELSE
    LET total_rows == Len(df.rows)
        display_df == head(df.rows, max_rows)
    IN [kind |-> "table",
        total |-> total_rows,
        showing |-> IF total_rows > max_rows THEN << max_rows >> ELSE << >>,
        blocks |-> [i \in 1..Len(display_df) |->
                      [label |-> record_label(df.index[i]),
                       fields |-> [j \in 1..Len(df.columns) |->
                                     format_value(df.columns[j], df.columns,
                                                  display_df[i][j])]]],
        more |-> IF total_rows > max_rows THEN << total_rows - max_rows >> ELSE << >>]

\* The scalars format_scalar_output is given: numbers of the Python and numpy
\* types, and a text.
ScalarTypes == {"int", "bool", "float", "numpy.int64", "numpy.float64", "numpy.float32"}
Scalars ==
  {Num(t, v) : t \in ScalarTypes \ {"bool"}, v \in {600, 1234567}}
    \cup {Num("bool", 1), Str("str", "North")}

\* isinstance(result_value, (int, float, np.integer, np.floating)): what the
\* executor dispatches to format_scalar_output (bool is a subclass of int).
is_number(value) == value.t \in ScalarTypes

\* isinstance(value, (int, float)): numpy.float64 is a subclass of float, no
\* other numpy type is a subclass of int or float.
is_int_or_float(value) == value.t \in {"int", "bool", "float", "numpy.float64"}
is_float_native_only(value) == value.t = "float"
\* isinstance(value, float)
is_float(value) == value.t \in {"float", "numpy.float64"}

format_scalar_output(value) ==
  IF is_int_or_float(value)
    THEN IF is_float(value)
           THEN [kind |-> "scalar", fmt |-> "$,.2f", v |-> value.v]
           ELSE [kind |-> "scalar", fmt |-> ",", v |-> value.v]
  ELSE IF value.t = "str"
    THEN [kind |-> "scalar", fmt |-> "raw", s |-> value.s]
  ELSE [kind |-> "scalar", fmt |-> "raw", v |-> value.v]

\* ------------------------------------------------- customer notification
\* The rows of customer_orders that are delayed on the day today
\* (tools.py lines 423-428); a comparison with NaT is False.
delayed_orders(customer_orders, today) ==
  SelectSeq(customer_orders,
            LAMBDA o : /\ o.est_delivery # NaT /\ o.est_delivery < today
                       /\ o.status # "Delivered"
                       /\ o.status # "Cancelled")

check_customer_order_status(customer_id, fs, now) ==
  LET data == load_data(fs) IN
  IF is_load_error(data)
    THEN Return([status |-> "error", message |-> [kind |-> "Unable to load data"]])
  ELSE
    LET clean_id == strip_upper(customer_id)
        customer_orders == orders_of(data.orders_df, clean_id)
        today == now.day
        delayed == delayed_orders(customer_orders, today)
        on_time_count ==
          Len(SelectSeq(customer_orders, LAMBDA o : o.status \in {"Pending", "Shipped"}))
        delivered_count ==
          Len(SelectSeq(customer_orders, LAMBDA o : o.status = "Delivered"))
    IN IF customer_orders = << >>
         THEN Return([status |-> "normal",
                      message |-> [kind |-> "You have no active orders"]])
       ELSE IF delayed # << >>
         THEN Return([status |-> "delayed",
                      message |-> [kind |-> "You have delayed orders", count |-> Len(delayed)],
                      count |-> Len(delayed)])
       ELSE IF on_time_count > 0
         THEN Return([status |-> "normal",
                      message |-> [kind |-> "All active orders are on track",
                                   count |-> on_time_count],
                      count |-> on_time_count])
       ELSE Return([status |-> "normal",
                    message |-> [kind |-> "You have completed orders",
                                 count |-> delivered_count],
                    count |-> delivered_count])

\* ----------------------------------------------------------------- audits
\* The first n elements of a list: list[:n].
first(list, n) == SubSeq(list, 1, IF Len(list) < n THEN Len(list) ELSE n)

\* revenue_df[anomaly == -1].iloc[-1] when a row is flagged (tools.py 341-351).
check_for_revenue_anomalies(fs, predict) ==
  LET data == load_data(fs) IN
  IF is_load_error(data) THEN Return(data)
  ELSE
    LET revenue_df == data.revenue_df IN
    IF Len(revenue_df) < MinRevenueRows
      THEN Return([kind |-> "Not enough data points to run anomaly detection"])
    ELSE
      LET flagged == {i \in 1..Len(revenue_df) : predict[i] = -1}
          last == CHOOSE i \in flagged : \A j \in flagged : j <= i
      IN IF flagged # {}
           THEN Return([kind |-> "CRITICAL REVENUE ANOMALY",
                        date |-> revenue_df[last].date,
                        amount |-> revenue_df[last].amount,
                        order_id |-> revenue_df[last].order_id])
           ELSE Return([kind |-> "SUCCESS: No significant revenue anomalies detected"])

critically_delayed_orders_cancelled_too(orders_df, today) ==
  SelectSeq(orders_df,
            LAMBDA o : /\ o.est_delivery # NaT /\ o.est_delivery < today
                       /\ o.status # "Delivered")
\* The rows of orders_df that are critically delayed on the day today
\* (tools.py lines 368-373); a comparison with NaT is False.
critically_delayed_orders(orders_df, today) ==
  SelectSeq(orders_df,
            LAMBDA o : /\ o.est_delivery # NaT /\ o.est_delivery < today
                       /\ o.status # "Delivered"
                       /\ o.status # "Cancelled")

\* delayed.merge(customers_df, on='customer_id', how='left')['name']
customer_names_of(delayed, customers_df) ==
  LET namesFor(o) ==
        LET cs == SelectSeq(customers_df, LAMBDA c : c.customer_id = o.customer_id)
        IN IF cs = << >> THEN << "nan" >> ELSE [i \in 1..Len(cs) |-> cs[i].name]
  IN Flatten([i \in 1..Len(delayed) |-> namesFor(delayed[i])])

listed_all(list) == list
\* list[:3]
listed(list) == first(list, 3)

check_for_critical_delays(fs, now) ==
  LET data == load_data(fs) IN
  IF is_load_error(data) THEN Return(data)
  ELSE
    LET today == now.day
        delayed == critically_delayed_orders(data.orders_df, today)
    IN IF delayed # << >>
         THEN Return([kind |-> "ALERT: orders are critically delayed",
                      count |-> Len(delayed),
                      orders |-> listed([i \in 1..Len(delayed) |-> delayed[i].order_id]),
                      customers |-> listed(customer_names_of(delayed, data.customers_df))])
         ELSE Return([kind |-> "SUCCESS: No critical delivery delays found"])

\* ---------------------------------------------------------- business tool
\* What exec(python_code, {}, local_env) does with a snippet: the names it has
\* bound in local_env when it stops, the value bound to result, and the fault
\* that stopped it ("none": it ran to its end).  fmt_fault: formatting the
\* value raises (a DataFrame with duplicate column labels, an object whose
\* __str__ raises).  mutates: the table of local_env the snippet changes in
\* place before anything else (it drops every row of it).
Shapes == {"None", "DataFrame", "Series", "number", "other"}
FaultClasses == {"Exception", "BaseException"}
Messages == {"KeyError: amt", "exit"}

Snippets ==
  { c \in [binds : SUBSET {"result", "total"}, shape : Shapes, fmt_fault : BOOLEAN,
           fault : {"none"} \cup FaultClasses, msg : Messages,
           mutates : {"nothing", "orders_df"}] :
      /\ ("result" \notin c.binds) => (c.shape = "None" /\ ~c.fmt_fault)
      /\ (c.shape = "None") => ~c.fmt_fault
      /\ (c.fault = "none") => (c.msg = "exit")
      /\ (c.fault = "BaseException") => (c.msg = "exit") }

formatter_of_frames_only(shape) ==
  CASE shape \in {"DataFrame", "Series"} -> "format_dataframe_output"
    [] shape = "number" -> "format_scalar_output"
    [] OTHER -> "str"
\* The formatter the result value is dispatched to (tools.py lines 303-311).
formatter_of(shape) ==
  CASE shape = "DataFrame" -> "format_dataframe_output"
    [] shape = "Series" -> "format_series_output"
    [] shape = "number" -> "format_scalar_output"
    [] OTHER -> "str"

NoResultError == [kind |-> "Error: The code ran, but no variable named 'result' was defined"]
NoneWarning == [kind |-> "Warning: The calculation returned None"]

has_result_always(local_env) == TRUE
\* 'result' in local_env
has_result(local_env) == "result" \in local_env

\* The body of the try block: exec, then the dispatch on local_env['result'].
try_block(python_code, data_map) ==
  LET local_env == DOMAIN data_map
                     \cup {"pd", "datetime", "format_dataframe_output",
                           "format_series_output", "format_scalar_output"}
                     \cup python_code.binds
  IN IF python_code.fault # "none"
       THEN Raise(python_code.fault, python_code.msg)
     ELSE IF has_result(local_env)
       THEN IF python_code.shape = "None" THEN Return(NoneWarning)
            ELSE IF python_code.fmt_fault
              THEN Raise("Exception", "formatting failed")
            ELSE Return([kind |-> "formatted", by |-> formatter_of(python_code.shape)])
     ELSE Return(NoResultError)

\* The except clause: the diagnostic built from str(e) and the traceback.
except_block(e) ==
  Return([kind |-> "Python Execution Error", msg |-> e.msg,
          traceback |-> e.msg, hints |-> "Common issues"])

execute_pandas_code_business(python_code, fs) ==
  LET data_map == load_data(fs) IN
  IF is_load_error(data_map) THEN Return(data_map)
  ELSE LET r == try_block(python_code, data_map)
       IN IF r.raised /\ except_Exception(r.cls)
            THEN except_block(r)
            ELSE r

\* get_data_schema (tools.py lines 38-75): the schema text, or the loader's
\* error string.
get_data_schema_unchecked(fs) == Return([kind |-> "DATABASE SCHEMA (Relational Structure)"])
get_data_schema(fs) ==
  LET data_map == load_data(fs) IN
  IF is_load_error(data_map) THEN Return(data_map)
  ELSE Return([kind |-> "DATABASE SCHEMA (Relational Structure)"])

\* ---------------------------------------------------- the tables in memory
\* What a call does to the tables it loaded.  loaded: the value load_data
\* returned to it; tables: the tables as they are when it returns (none when
\* the load failed); executed: exec() was called on a snippet.
InMemory(loaded, tables, executed) ==
  [loaded |-> loaded, tables |-> tables, executed |-> executed]

\* The functions that only read their tables.
reader_memory(fs) ==
  LET data == load_data(fs) IN
  IF is_load_error(data) THEN InMemory(data, NoTables, FALSE)
  ELSE InMemory(data, data, FALSE)

\* exec(python_code, {}, local_env): local_env holds the loaded tables
\* themselves (data_map.copy() copies the dict, not the frames).
executor_memory(python_code, fs) ==
  LET data_map == load_data(fs) IN
  IF is_load_error(data_map) THEN InMemory(data_map, NoTables, FALSE)
  ELSE InMemory(data_map,
                IF python_code.mutates = "orders_df"
                  THEN [data_map EXCEPT !.orders_df = << >>]
                  ELSE data_map,
                TRUE)

\* check_for_revenue_anomalies: revenue_df['anomaly'] = model.predict(X)
\* (tools.py line 343) adds a column to the loaded table.
revenue_memory(fs, predict) ==
  LET data == load_data(fs) IN
  IF is_load_error(data) THEN InMemory(data, NoTables, FALSE)
  ELSE IF Len(data.revenue_df) < MinRevenueRows THEN InMemory(data, data, FALSE)
  ELSE InMemory(data,
                [data EXCEPT !.revenue_df =
                   [i \in 1..Len(data.revenue_df) |->
                      [f \in DOMAIN data.revenue_df[i] \cup {"anomaly"} |->
                         IF f = "anomaly" THEN predict[i] ELSE data.revenue_df[i][f]]]],
                FALSE)

\* The memory after a call: what the call before left is what was there when
\* this one started.
after_call(m) ==
  [before |-> memory.tables, loaded |-> m.loaded, tables |-> m.tables,
   executed |-> m.executed]

\* ------------------------------------------------------------ credentials
\* credentials.json: username -> password, role, customer_id (customers only).
CREDENTIALS ==
  [alice |-> [password |-> "pw-alice", role |-> "customer", customer_id |-> "CUST_001"],
   boss |-> [password |-> "pw-boss", role |-> "business", customer_id |-> None]]

Usernames == {"alice", "boss", "eve"}
Passwords == {"pw-alice", "pw-boss"}
Roles == {"customer", "business"}

\* ------------------------------------------------------ model responses
\* A response of generate_content: whether it has a candidate, and the parts
\* of the first candidate's content.  A part is a text or a function call.
REGISTERED_CUSTOMER_TOOLS == {"get_customer_orders"}
REGISTERED_BUSINESS_TOOLS_ALL == {"execute_pandas_code_business"}

TextPart(t) == [text |-> t]
CallPart(name, args) == [function_call |-> [name |-> name, args |-> args]]
is_function_call(part) == "function_call" \in DOMAIN part

\* The snippets the model emits in a chat turn: one that binds a table and one
\* that calls sys.exit().
TurnSnippets ==
  { c \in Snippets :
      /\ ~c.fmt_fault /\ c.mutates = "nothing"
      /\ \/ c.fault = "none" /\ c.binds = {"result"} /\ c.shape = "DataFrame"
         \/ c.fault = "BaseException" /\ c.binds = {} } 

Parts ==
  {TextPart("Here you go. ")}
    \cup {CallPart("get_customer_orders", [customer_id |-> c]) :
            c \in {"CUST_001", "CUST_002", "CUST_003"}}
    \cup {CallPart("execute_pandas_code_business", [python_code |-> c]) : c \in TurnSnippets}
    \cup {CallPart("execute_pandas_code_business", [code |-> "result = 1"])}

NoCandidates == [candidates |-> FALSE, parts |-> << >>]
Responses ==
  {NoCandidates} \cup {[candidates |-> TRUE, parts |-> ps] : ps \in SeqsUpTo(Parts, MaxParts)}

\* Responses of at most one part.
SimpleResponses == {r \in Responses : Len(r.parts) <= 1}

\* The parts of a follow-up response are never iterated (the loop runs over
\* the parts of the first response): one answer, one without text, one without
\* candidates.
FollowupResponses ==
  {NoCandidates, [candidates |-> TRUE, parts |-> << >>],
   [candidates |-> TRUE, parts |-> << TextPart("You have 2 orders. ") >>]}

Prompts == {"where is my order", "show the orders of CUST_002"}

\* ------------------------------------------------------------------ state
VARIABLES
  \* st.session_state
  page, auth_role_pending, authenticated_user, customer_id,
  customer_history, business_history, audit_log, last_raw_response,
  notification_shown, revenue_alert_status, delay_alert_status,
  \* handle_chat_interaction: position and locals
  pc, contents, response, current_tool_steps, parts, idx, final_text,
  \* every generate_content request of the turn, in order: the contents sent
  \* and how the call ended ("pending", "returned", "raised")
  model_requests,
  \* the last tool function call made and its outcome
  tool_call, tool_result

dashVars == << notification_shown, revenue_alert_status, delay_alert_status >>
sessionVars == << page, auth_role_pending, authenticated_user, customer_id,
                  customer_history, business_history, audit_log, last_raw_response,
                  dashVars >>
turnVars == << pc, contents, response, current_tool_steps, parts, idx, final_text,
               model_requests >>
toolVars == << tool_call, tool_result, memory >>
vars == << sessionVars, turnVars, toolVars >>

NoCall == [name |-> "none"]
NoResult == [raised |-> FALSE, value |-> [kind |-> "none"]]
NoRawResponse == [kind |-> "None"]
NoMemory == [before |-> NoTables, loaded |-> NoTables, tables |-> NoTables,
             executed |-> FALSE]
Apology == "I apologize, but I couldn't generate a proper response. Please try again."
PendingAudit == [kind |-> "Pending (Run Audit)"]

\* Session state initialization (app.py lines 177-199); no turn in progress.
SessionInit ==
  /\ page = "selector"
  /\ auth_role_pending = None
  /\ authenticated_user = None
  /\ customer_id = None
  /\ customer_history = << >>
  /\ business_history = << >>
  /\ audit_log = << >>
  /\ last_raw_response = NoRawResponse
  /\ notification_shown = FALSE
  /\ revenue_alert_status = PendingAudit
  /\ delay_alert_status = PendingAudit

TurnIdle ==
  /\ pc = "idle"
  /\ contents = << >>
  /\ response = NoCandidates
  /\ current_tool_steps = << >>
  /\ parts = << >>
  /\ idx = 1
  /\ final_text = ""
  /\ model_requests = << >>

\* No call of handle_chat_interaction is in progress or has left a result.
NoTurn ==
  /\ TurnIdle
  /\ tool_call = NoCall
  /\ tool_result = NoResult
  /\ memory = NoMemory

Init ==
  /\ SessionInit
  /\ NoTurn

\* The script runs to its end between two user events; on a chat page it has
\* passed the notification block of render_chat_page.
AtRest ==
  /\ pc \in {"idle", "returned", "aborted"}
  /\ page \in {"customer_chat", "business_chat"} => notification_shown

\* ------------------------------------------------------- pages and login
\* render_selector_page: one of the two portal buttons.
SelectRole(role) ==
  /\ AtRest /\ page = "selector"
  /\ auth_role_pending' = role
  /\ page' = "auth"
  /\ UNCHANGED << authenticated_user, customer_id, customer_history, business_history,
                  audit_log, last_raw_response, turnVars, toolVars, dashVars >>

\* render_auth_page: "Cancel and Go Back".
CancelAuth ==
  /\ AtRest /\ page = "auth"
  /\ auth_role_pending' = None
  /\ page' = "selector"
  /\ UNCHANGED << authenticated_user, customer_id, customer_history, business_history,
                  audit_log, last_raw_response, turnVars, toolVars, dashVars >>

\* The login form: authenticate_user(username, password, auth_role_pending).
role_matches_always(user_data, expected_role) == TRUE

\* authenticate_user: user_data["role"] == expected_role (app.py line 643).
role_matches(user_data, expected_role) == user_data.role = expected_role

authenticate_user(username, password) ==
  /\ AtRest /\ page = "auth"
  /\ LET expected_role == auth_role_pending IN
     IF /\ username \in DOMAIN CREDENTIALS
        /\ CREDENTIALS[username].password = password
        /\ role_matches(CREDENTIALS[username], expected_role)
       THEN /\ authenticated_user' = username
            /\ customer_id' = IF expected_role = "customer"
                                THEN CREDENTIALS[username].customer_id
                                ELSE customer_id
            /\ page' = IF expected_role = "customer" THEN "customer_chat" ELSE "business_chat"
            /\ auth_role_pending' = None
       ELSE UNCHANGED << authenticated_user, customer_id, page, auth_role_pending >>
  /\ UNCHANGED << customer_history, business_history, audit_log, last_raw_response,
                  turnVars, toolVars, dashVars >>

\* render_chat_page: the sidebar's "Logout & Return Home".
Logout ==
  /\ AtRest /\ page \in {"customer_chat", "business_chat"}
  /\ authenticated_user # None
  /\ authenticated_user' = None
  /\ customer_id' = None
  /\ auth_role_pending' = None
  /\ customer_history' = << >>
  /\ business_history' = << >>
  /\ audit_log' = << >>
  /\ notification_shown' = FALSE
  /\ page' = "selector"
  \* the rerun leaves nothing of the last call of handle_chat_interaction
  /\ pc' = "idle"
  /\ contents' = << >>
  /\ response' = NoCandidates
  /\ current_tool_steps' = << >>
  /\ parts' = << >>
  /\ idx' = 1
  /\ final_text' = ""
  /\ model_requests' = << >>
  /\ tool_call' = NoCall
  /\ tool_result' = NoResult
  /\ memory' = NoMemory
  /\ UNCHANGED << last_raw_response, revenue_alert_status, delay_alert_status >>

\* ----------------------------------------------------------- the dashboard
Role == IF page = "customer_chat" THEN "customer" ELSE "business"

\* The files at a login of the session specifications, and those of the
\* dashboard: also unreadable ones, and a revenue.csv of five rows.
OkFiles == {Files("ok", orders_csv, revenue_csv)}
DashFiles ==
  FileStates \cup UnparsableFiles
    \cup {Files("ok", orders_csv, revenue_table(<< 1, 3, 2, 1, 2 >>))}

\* render_chat_page, "Show notification on first load" (app.py lines 776-1088):
\* the script run that follows a login or a system audit.  A customer's
\* notification is made from check_customer_order_status and only shown; the
\* business notification runs each audit whose status is still pending.
ShowNotification(fs, now, predict) ==
  /\ pc \in {"idle", "returned", "aborted"}
  /\ page \in {"customer_chat", "business_chat"}
  /\ authenticated_user # None
  /\ ~notification_shown
  /\ IF Role = "business"
       THEN /\ revenue_alert_status' =
                 IF revenue_alert_status = PendingAudit
                   THEN check_for_revenue_anomalies(fs, predict).value
                   ELSE revenue_alert_status
            /\ delay_alert_status' =
                 IF delay_alert_status = PendingAudit
                   THEN check_for_critical_delays(fs, now).value
                   ELSE delay_alert_status
       ELSE UNCHANGED << revenue_alert_status, delay_alert_status >>
  /\ notification_shown' = TRUE
  /\ UNCHANGED << page, auth_role_pending, authenticated_user, customer_id,
                  customer_history, business_history, audit_log, last_raw_response,
                  turnVars, toolVars >>

\* The sidebar's "Run System Audit" (app.py lines 1111-1116).
RunAudit(fs, now, predict) ==
  /\ AtRest /\ page = "business_chat"
  /\ authenticated_user # None
  /\ revenue_alert_status' = check_for_revenue_anomalies(fs, predict).value
  /\ delay_alert_status' = check_for_critical_delays(fs, now).value
  /\ notification_shown' = FALSE
  /\ UNCHANGED << page, auth_role_pending, authenticated_user, customer_id,
                  customer_history, business_history, audit_log, last_raw_response,
                  turnVars, toolVars >>

\* "CRITICAL" in status, "ALERT" in status: the keyword occurs in the text,
\* be it the text of the function or a cell the text quotes.
keywords_in(text) ==
  CASE text \in {"CRITICAL REVENUE ANOMALY", "CRITICAL"} -> {"CRITICAL"}
    [] text \in {"ALERT: orders are critically delayed", "ALERT"} -> {"ALERT"}
    [] OTHER -> {}

has_keyword(status, keyword) ==
  \/ keyword \in keywords_in(status.kind)
  \/ /\ "e" \in DOMAIN status
     /\ "cell" \in DOMAIN status.e
     /\ keyword \in keywords_in(status.e.cell)

\* The two business notifications (app.py lines 908-959) and the sidebar's
\* Live Status (app.py lines 1118-1126): "error" for an issue, else "success".
notifications(revenue_status, delay_status) ==
  << IF has_keyword(revenue_status, "CRITICAL")
       THEN [type |-> "error", title |-> "Revenue Alert"]
       ELSE [type |-> "success", title |-> "Revenue Status",
             message |-> "Revenue metrics normal"],
     IF has_keyword(delay_status, "ALERT")
       THEN [type |-> "error", title |-> "Logistics Alert"]
       ELSE [type |-> "success", title |-> "Logistics Status",
             message |-> "All deliveries on schedule"] >>

live_status(revenue_status, delay_status) ==
  [revenue |-> IF has_keyword(revenue_status, "CRITICAL") THEN "error" ELSE "Normal",
   logistics |-> IF has_keyword(delay_status, "ALERT") THEN "error" ELSE "Normal"]

\* ------------------------------------------------- the conversational loop
history_of(role) == IF role = "customer" THEN customer_history ELSE business_history

tools_of_every_role(role) == REGISTERED_CUSTOMER_TOOLS \cup REGISTERED_BUSINESS_TOOLS_ALL
\* tools, and the function_map built from it (app.py lines 482-504, 549-551).
tools(role) ==
  IF role = "customer" THEN REGISTERED_CUSTOMER_TOOLS ELSE REGISTERED_BUSINESS_TOOLS_ALL

\* tool_declarations: the names declared to the model.
tool_declarations(role) ==
  IF role = "customer" THEN {"get_customer_orders"} ELSE {"execute_pandas_code_business"}

\* What function_map[func_name](**func_args) does to the tables in memory.
tool_memory(func_name, func_args, fs) ==
  IF func_name = "get_customer_orders"
    THEN IF DOMAIN func_args = {"customer_id"}
           THEN after_call(reader_memory(fs)) ELSE memory
    ELSE IF DOMAIN func_args = {"python_code"}
           THEN after_call(executor_memory(func_args.python_code, fs)) ELSE memory

\* function_map[func_name](**func_args): the keywords must be the parameters.
call_tool(func_name, func_args, fs, now) ==
  IF func_name = "get_customer_orders"
    THEN IF DOMAIN func_args = {"customer_id"}
           THEN get_customer_orders(func_args.customer_id, fs, now)
           ELSE Raise("Exception", "TypeError: unexpected keyword argument")
    ELSE IF DOMAIN func_args = {"python_code"}
           THEN execute_pandas_code_business(func_args.python_code, fs)
           ELSE Raise("Exception", "TypeError: unexpected keyword argument")

\* contents built from the role's history (app.py lines 525-531).
history_contents(history) ==
  [i \in 1..Len(history) |->
     [role |-> IF history[i].role = "assistant" THEN "model" ELSE history[i].role,
      text |-> history[i].content]]

\* contents, as sent with the first request (app.py lines 525-532).
first_contents(history, prompt) ==
  Append(history_contents(history), [role |-> "user", text |-> prompt])

RECURSIVE concat_text(_)
concat_text(ps) ==
  IF ps = << >> THEN ""
  ELSE (IF is_function_call(Head(ps)) THEN "" ELSE Head(ps).text) \o concat_text(Tail(ps))

\* response.text: the texts of the first candidate's parts ("" when there is none).
response_text(resp) == IF resp.candidates THEN concat_text(resp.parts) ELSE ""

extract_text_raw(resp) == response_text(resp)
\* The returned text (app.py lines 619-631).
extract_text(resp) == IF response_text(resp) # "" THEN response_text(resp) ELSE Apology

ToolCallStep(name, args) == [type |-> "Tool Call", name |-> name, args |-> args]
ToolOutputStep(output) == [type |-> "Tool Output", output |-> output]
ErrorExecuting(func_name, msg) ==
  [kind |-> "Error executing", name |-> func_name, msg |-> msg]

Request(cs) == [contents |-> cs, outcome |-> "pending"]
\* The pending request (the last one) ends with outcome o.
Ended(reqs, o) == [reqs EXCEPT ![Len(reqs)].outcome = o]

\* render_chat_page on a submitted prompt (app.py lines 1168-1174), into
\* handle_chat_interaction up to its first generate_content request.
\* open: the caller's bound on the turns of one history.
ChatInput(prompt, open) ==
  /\ AtRest /\ page \in {"customer_chat", "business_chat"}
  /\ authenticated_user # None
  /\ open
  /\ LET history == Append(history_of(Role), [role |-> "user", content |-> prompt])
     IN /\ customer_history' = IF Role = "customer" THEN history ELSE customer_history
        /\ business_history' = IF Role = "customer" THEN business_history ELSE history
        /\ contents' = first_contents(history, prompt)
        /\ model_requests' = << Request(first_contents(history, prompt)) >>
  /\ pc' = "awaiting_model"
  /\ response' = NoCandidates
  /\ current_tool_steps' = << >>
  /\ parts' = << >>
  /\ idx' = 1
  /\ final_text' = ""
  /\ tool_call' = NoCall
  /\ tool_result' = NoResult
  /\ memory' = NoMemory
  /\ UNCHANGED << page, auth_role_pending, authenticated_user, customer_id,
                  audit_log, last_raw_response, dashVars >>

\* The first generate_content returns (app.py lines 553-568).
InitialReply(resp) ==
  /\ pc = "awaiting_model"
  /\ response' = resp
  /\ current_tool_steps' = << >>
  /\ parts' = IF resp.candidates THEN resp.parts ELSE << >>
  /\ idx' = 1
  /\ pc' = "loop"
  /\ model_requests' = Ended(model_requests, "returned")
  /\ UNCHANGED << sessionVars, contents, final_text, toolVars >>

\* The first generate_content raises: nothing catches it.
InitialFault ==
  /\ pc = "awaiting_model"
  /\ pc' = "aborted"
  /\ model_requests' = Ended(model_requests, "raised")
  /\ UNCHANGED << sessionVars, contents, response, current_tool_steps, parts, idx,
                  final_text, toolVars >>

\* A part that is no function call: the loop moves on (app.py lines 570-571).
SkipPart ==
  /\ pc = "loop" /\ idx <= Len(parts)
  /\ ~is_function_call(parts[idx])
  /\ idx' = idx + 1
  /\ UNCHANGED << sessionVars, pc, contents, response, current_tool_steps, parts,
                  final_text, model_requests, toolVars >>

\* A function call whose name is not in function_map: only the call is
\* recorded (app.py lines 572-584).
UnknownTool ==
  /\ pc = "loop" /\ idx <= Len(parts)
  /\ is_function_call(parts[idx])
  /\ parts[idx].function_call.name \notin tools(Role)
  /\ current_tool_steps' =
       Append(current_tool_steps,
              ToolCallStep(parts[idx].function_call.name, parts[idx].function_call.args))
  /\ idx' = idx + 1
  /\ UNCHANGED << sessionVars, pc, contents, response, parts, final_text,
                  model_requests, toolVars >>

\* A function call of a registered tool (app.py lines 572-609): the call is
\* recorded and the tool runs on the files as they are then.
ExecuteTool(fs) ==
  /\ pc = "loop" /\ idx <= Len(parts)
  /\ is_function_call(parts[idx])
  /\ parts[idx].function_call.name \in tools(Role)
  /\ LET func_name == parts[idx].function_call.name
         func_args == parts[idx].function_call.args
         called == Append(current_tool_steps, ToolCallStep(func_name, func_args))
         r == call_tool(func_name, func_args, fs, Clock)
     IN /\ tool_call' = [name |-> func_name, args |-> func_args, fs |-> fs]
        /\ tool_result' = r
        /\ memory' = tool_memory(func_name, func_args, fs)
        /\ IF r.raised
             THEN IF except_Exception(r.cls)
                    THEN \* the tool raised: caught, recorded, the loop moves on
                         /\ current_tool_steps' =
                              Append(called, ToolOutputStep(ErrorExecuting(func_name, r.msg)))
                         /\ idx' = idx + 1
                         /\ UNCHANGED << pc, contents, model_requests >>
                    ELSE \* not an Exception: it leaves handle_chat_interaction
                         /\ current_tool_steps' = called
                         /\ pc' = "aborted"
                         /\ UNCHANGED << idx, contents, model_requests >>
             ELSE IF ~response.candidates
                    THEN \* response.candidates[0] raises inside the try
                         /\ current_tool_steps' =
                              Append(Append(called, ToolOutputStep(r.value)),
                                     ToolOutputStep(ErrorExecuting(func_name, "IndexError")))
                         /\ idx' = idx + 1
                         /\ UNCHANGED << pc, contents, model_requests >>
                    ELSE \* the result goes back to the model
                         /\ current_tool_steps' = Append(called, ToolOutputStep(r.value))
                         /\ contents' =
                              contents \o
                                << [role |-> "model", parts |-> response.parts],
                                   [role |-> "user",
                                    function_response |->
                                      [name |-> func_name, result |-> r.value]] >>
                         /\ model_requests' = Append(model_requests, Request(contents'))
                         /\ pc' = "awaiting_followup"
                         /\ UNCHANGED idx
  /\ UNCHANGED << sessionVars, response, parts, final_text >>

\* The follow-up generate_content returns (app.py lines 602-606).
FollowupReply(resp) ==
  /\ pc = "awaiting_followup"
  /\ response' = resp
  /\ idx' = idx + 1
  /\ pc' = "loop"
  /\ model_requests' = Ended(model_requests, "returned")
  /\ UNCHANGED << sessionVars, contents, current_tool_steps, parts, final_text,
                  toolVars >>

\* The follow-up generate_content raises inside the try (app.py lines 602-612).
FollowupFault ==
  /\ pc = "awaiting_followup"
  /\ IF except_Exception("Exception")
       THEN /\ current_tool_steps' =
                 Append(current_tool_steps,
                        ToolOutputStep(ErrorExecuting(parts[idx].function_call.name,
                                                      "model error")))
            /\ idx' = idx + 1
            /\ pc' = "loop"
       ELSE /\ pc' = "aborted"
            /\ UNCHANGED << current_tool_steps, idx >>
  /\ model_requests' = Ended(model_requests, "raised")
  /\ UNCHANGED << sessionVars, contents, response, parts, final_text, toolVars >>

\* The loop is over: handle_chat_interaction returns (app.py lines 617-631)
\* and render_chat_page stores its results (app.py lines 1176-1178).
Finish ==
  /\ pc = "loop" /\ idx > Len(parts)
  /\ last_raw_response' = [kind |-> "str", of |-> response]
  /\ final_text' = extract_text(response)
  /\ audit_log' = current_tool_steps
  /\ LET history == Append(history_of(Role),
                           [role |-> "assistant", content |-> final_text'])
     IN /\ customer_history' = IF Role = "customer" THEN history ELSE customer_history
        /\ business_history' = IF Role = "customer" THEN business_history ELSE history
  /\ pc' = "returned"
  /\ UNCHANGED << page, auth_role_pending, authenticated_user, customer_id,
                  contents, response, current_tool_steps, parts, idx,
                  model_requests, toolVars, dashVars >>

\* A tool function applied on its own to an input and a state of the files.
RunExecutor(python_code, fs) ==
  /\ pc = "idle" /\ page = "selector"
  /\ tool_call' = [name |-> "execute_pandas_code_business",
                   args |-> [python_code |-> python_code], fs |-> fs]
  /\ tool_result' = execute_pandas_code_business(python_code, fs)
  /\ memory' = after_call(executor_memory(python_code, fs))
  /\ UNCHANGED << sessionVars, turnVars >>

\* get_customer_orders on an input, a state of the files and an instant.
RunLookup(cid, fs, now) ==
  /\ pc = "idle" /\ page = "selector"
  /\ tool_call' = [name |-> "get_customer_orders",
                   args |-> [customer_id |-> cid], fs |-> fs, now |-> now]
  /\ tool_result' = get_customer_orders(cid, fs, now)
  /\ memory' = after_call(reader_memory(fs))
  /\ UNCHANGED << sessionVars, turnVars >>

\* check_customer_order_status on an input, a state of the files and an instant.
RunStatusCheck(cid, fs, now) ==
  /\ pc = "idle" /\ page = "selector"
  /\ tool_call' = [name |-> "check_customer_order_status",
                   args |-> [customer_id |-> cid], fs |-> fs, now |-> now]
  /\ tool_result' = check_customer_order_status(cid, fs, now)
  /\ memory' = after_call(reader_memory(fs))
  /\ UNCHANGED << sessionVars, turnVars >>

\* check_for_critical_delays on a state of the files and an instant.
RunDelayAudit(fs, now) ==
  /\ pc = "idle" /\ page = "selector"
  /\ tool_call' = [name |-> "check_for_critical_delays",
                   args |-> [none |-> None], fs |-> fs, now |-> now]
  /\ tool_result' = check_for_critical_delays(fs, now)
  /\ memory' = after_call(reader_memory(fs))
  /\ UNCHANGED << sessionVars, turnVars >>

\* check_for_revenue_anomalies on a state of the files, with what the fitted
\* model predicts for its rows.
RunRevenueAudit(fs, predict) ==
  /\ pc = "idle" /\ page = "selector"
  /\ tool_call' = [name |-> "check_for_revenue_anomalies",
                   args |-> [none |-> None], fs |-> fs, predict |-> predict]
  /\ tool_result' = check_for_revenue_anomalies(fs, predict)
  /\ memory' = after_call(revenue_memory(fs, predict))
  /\ UNCHANGED << sessionVars, turnVars >>

\* get_data_schema on a state of the files.
RunSchema(fs) ==
  /\ pc = "idle" /\ page = "selector"
  /\ tool_call' = [name |-> "get_data_schema", args |-> [none |-> None], fs |-> fs]
  /\ tool_result' = get_data_schema(fs)
  /\ memory' = after_call(reader_memory(fs))
  /\ UNCHANGED << sessionVars, turnVars >>

\* format_dataframe_output on a value and a display cap.
RunFormatter(df, max_rows) ==
  /\ pc = "idle" /\ page = "selector"
  /\ tool_call' = [name |-> "format_dataframe_output",
                   args |-> [df |-> df, max_rows |-> max_rows]]
  /\ tool_result' = Return(format_dataframe_output(df, max_rows))
  /\ UNCHANGED memory
  /\ UNCHANGED << sessionVars, turnVars >>

\* format_scalar_output on a value.
RunScalar(value) ==
  /\ pc = "idle" /\ page = "selector"
  /\ tool_call' = [name |-> "format_scalar_output", args |-> [value |-> value]]
  /\ tool_result' = Return(format_scalar_output(value))
  /\ UNCHANGED memory
  /\ UNCHANGED << sessionVars, turnVars >>

\* ---------------------------------------------------------- specifications
\* Spec: one login and the first turn of its history, with every response of
\* up to MaxParts parts.
Login ==
  \/ \E role \in Roles : SelectRole(role)
  \/ CancelAuth
  \/ \E u \in Usernames, p \in Passwords : authenticate_user(u, p)

Notification(files) ==
  \E fs \in files :
    \E predict \in Predictions(Len(fs.revenue)) : ShowNotification(fs, Clock, predict)

Turn(FirstResponses) ==
  \/ \E resp \in FirstResponses : InitialReply(resp)
  \/ InitialFault
  \/ SkipPart
  \/ UnknownTool
  \/ \E fs \in FileStates : ExecuteTool(fs)
  \/ \E resp \in FollowupResponses : FollowupReply(resp)
  \/ FollowupFault
  \/ Finish

Next ==
  \/ Login
  \/ Notification(OkFiles)
  \/ \E prompt \in Prompts : ChatInput(prompt, history_of(Role) = << >>)
  \/ Turn(Responses)

Spec == Init /\ [][Next]_vars

\* SessionSpec: logins, logouts and up to MaxTurns turns per history, with
\* responses of at most one part.
SessionNext ==
  \/ Login
  \/ Notification(OkFiles)
  \/ Logout
  \/ \E prompt \in Prompts : ChatInput(prompt, Len(history_of(Role)) < 2 * MaxTurns)
  \/ Turn(SimpleResponses)

SessionSpec == Init /\ [][SessionNext]_vars

\* DashboardSpec: logins, logouts, system audits and the first turn of a
\* history, on files of every state.
DashboardNext ==
  \/ Login
  \/ Notification(DashFiles)
  \/ \E fs \in DashFiles :
       \E predict \in Predictions(Len(fs.revenue)) : RunAudit(fs, Clock, predict)
  \/ Logout
  \/ \E prompt \in Prompts : ChatInput(prompt, history_of(Role) = << >>)
  \/ Turn(SimpleResponses)

DashboardSpec == Init /\ [][DashboardNext]_vars

\* ToolSpec: the tool functions on every input of their bounded input sets.
ToolNext ==
  \E python_code \in Snippets, fs \in FileStates : RunExecutor(python_code, fs)

ToolSpec == Init /\ [][ToolNext]_vars

\* InvocationSpec: sequences of calls of the six functions that load the
\* data, on readable and unreadable files, each call after any other.
InvocationFiles ==
  FileStates \cup
    {Files("ok",
           orders_table(<< [customer_id |-> "CUST_001", status |-> "Pending",
                            est_delivery |-> Clock.day - 1] >>),
           revenue_table(<< 1, 3, 2, 1, 2 >>))}
InvocationSnippets ==
  { c \in Snippets :
      /\ ~c.fmt_fault /\ c.binds = {"result"} /\ c.shape = "number"
      /\ c.fault \in {"none", "Exception"} /\ c.msg = "exit" }
InvocationPredictions(n) == {p \in Predictions(n) : \A i \in 1..(n - 2) : p[i] = 1}

InvocationNext ==
  \/ \E python_code \in InvocationSnippets, fs \in InvocationFiles :
       RunExecutor(python_code, fs)
  \/ \E cid \in LookupIds, fs \in InvocationFiles : RunLookup(cid, fs, Clock)
  \/ \E cid \in LookupIds, fs \in InvocationFiles : RunStatusCheck(cid, fs, Clock)
  \/ \E fs \in InvocationFiles : RunDelayAudit(fs, Clock)
  \/ \E fs \in InvocationFiles :
       \E predict \in InvocationPredictions(Len(fs.revenue)) : RunRevenueAudit(fs, predict)
  \/ \E fs \in InvocationFiles : RunSchema(fs)

InvocationSpec == Init /\ [][InvocationNext]_vars

\* CustomerSpec: the customer's lookup and notification check, each on every
\* identifier, orders table and instant of their bounded input sets.
\* No tool function has been applied yet.
Fresh == tool_call = NoCall

CustomerNext ==
  \/ /\ Fresh
     /\ \E cid \in LookupIds, fs \in CustomerFiles, now \in Clocks :
          RunLookup(cid, fs, now)
  \/ /\ Fresh
     /\ \E cid \in LookupIds, fs \in CustomerFiles, now \in Clocks :
          RunStatusCheck(cid, fs, now)

CustomerSpec == Init /\ [][CustomerNext]_vars

\* AuditSpec: the two audits of the business dashboard, each on every table
\* (and every prediction of the outlier model) of their bounded input sets.
AuditNext ==
  \/ /\ Fresh
     /\ \E fs \in AuditFiles, now \in Clocks : RunDelayAudit(fs, now)
  \/ /\ Fresh
     /\ \E fs \in RevenueFiles :
          \E predict \in Predictions(Len(fs.revenue)) : RunRevenueAudit(fs, predict)

AuditSpec == Init /\ [][AuditNext]_vars

\* FormatSpec: the table formatter on every value and cap, and the scalar
\* formatter on every value, of their bounded input sets.
FormatNext ==
  \/ /\ Fresh
     /\ \E df \in Frames, max_rows \in Caps : RunFormatter(df, max_rows)
  \/ /\ Fresh
     /\ \E value \in Scalars : RunScalar(value)

FormatSpec == Init /\ [][FormatNext]_vars

\* ------------------------------------------------------------------ claims
ToolNames == REGISTERED_CUSTOMER_TOOLS \cup REGISTERED_BUSINESS_TOOLS_ALL
IsExecutorCall ==
  /\ tool_call.name = "execute_pandas_code_business"
  /\ DOMAIN tool_call.args = {"python_code"}
\* The entries of a trace that are tool calls / tool outputs.
CallsIn(trace) == {i \in 1..Len(trace) : trace[i].type = "Tool Call"}
OutputsIn(trace) == {i \in 1..Len(trace) : trace[i].type = "Tool Output"}
\* The function calls the model requested in the first response of the turn.
Requested == {i \in 1..Len(parts) : is_function_call(parts[i])}
\* A request whose contents carry output as a function result.
FedBack(output) ==
  \E i \in 1..Len(model_requests) :
    \E j \in 1..Len(model_requests[i].contents) :
      /\ "function_response" \in DOMAIN model_requests[i].contents[j]
      /\ model_requests[i].contents[j].function_response.result = output

\* C1: whenever the execution of a snippet raises a fault, of any class and
\* also while its result is formatted, execute_pandas_code_business returns
\* (never raises) a diagnostic that carries the fault's message.
C1_FaultReturnedAsDiagnostic ==
  (/\ IsExecutorCall
   /\ tool_call.fs.state = "ok"
   /\ try_block(tool_call.args.python_code, load_data(tool_call.fs)).raised)
    => /\ ~tool_result.raised
       /\ tool_result.value.kind = "Python Execution Error"
       /\ tool_result.value.msg =
            try_block(tool_call.args.python_code, load_data(tool_call.fs)).msg

\* C2: in a customer turn every execution of get_customer_orders has the
\* session's customer_id as its customer_id argument, whatever the model
\* put into the function call.
C2_LookupUsesSessionCustomer ==
  (/\ page = "customer_chat"
   /\ tool_call.name = "get_customer_orders"
   /\ DOMAIN tool_call.args = {"customer_id"})
    => tool_call.args.customer_id = customer_id

\* C3: the tools of a turn are fixed by the role: one tool is declared to the
\* model, get_customer_orders for a customer and execute_pandas_code_business
\* for a business user, and no other tool is ever executed in the turn.
C3_ToolSetFixedByRole ==
  (page \in {"customer_chat", "business_chat"}) =>
    LET only == IF page = "customer_chat" THEN "get_customer_orders"
                ELSE "execute_pandas_code_business"
    IN /\ tool_declarations(Role) = {only}
       /\ tool_call.name # "none" => tool_call.name = only

\* C3 witness: a customer turn has returned whose model response named
\* execute_pandas_code_business, and a tool was executed in it.
C3_Witness ==
  /\ page = "customer_chat" /\ pc = "returned"
  /\ tool_call.name = "get_customer_orders"
  /\ \E i \in CallsIn(current_tool_steps) :
       current_tool_steps[i].name = "execute_pandas_code_business"

\* C4: when the last tool function called in a turn raised and the turn
\* returned, the error string went back to the model as the function result
\* of that call, in a request after the first one.
C4_ToolFaultFedBack ==
  (/\ pc = "returned"
   /\ tool_result.raised)
    => /\ Len(model_requests) >= 2
       /\ FedBack(ErrorExecuting(tool_call.name, tool_result.msg))

\* C5: the returned trace is made of pairs, one per function call the model
\* requested: a Tool Call entry directly followed by one Tool Output entry.
C5_TraceIsPairs ==
  (pc = "returned") =>
    /\ Len(current_tool_steps) = 2 * Cardinality(Requested)
    /\ \A i \in 1..Len(current_tool_steps) :
         current_tool_steps[i].type = IF i % 2 = 1 THEN "Tool Call" ELSE "Tool Output"

\* C6: a turn that returns yields a non-empty text: the text of the model's
\* last response when it has one, the fixed apology otherwise, and that text
\* is the assistant entry appended to the role's history.
C6_ReturnedTextNonEmpty ==
  (pc = "returned") =>
    /\ final_text # ""
    /\ (\E i \in 1..Len(response.parts) : ~is_function_call(response.parts[i]))
         => final_text = concat_text(response.parts)
    /\ (\A i \in 1..Len(response.parts) : is_function_call(response.parts[i]))
         => final_text = Apology
    /\ history_of(Role)[Len(history_of(Role))] =
         [role |-> "assistant", content |-> final_text]

\* C6 witness: a returned turn whose tool raised and whose text is the apology.
C6_Witness ==
  /\ pc = "returned"
  /\ tool_result.raised
  /\ final_text = Apology

\* C7: the model is invoked at most twice in a turn.
C7_AtMostTwoInvocations == Len(model_requests) <= 2

ModelErrorOutputs ==
  {i \in OutputsIn(current_tool_steps) :
     \E n \in ToolNames :
       current_tool_steps[i].output = ErrorExecuting(n, "model error")}
C9_FirstContentsPriorPlusPrompt ==
  (pc = "awaiting_model") =>
    model_requests[1].contents = history_contents(history_of(Role))

\* C10: a snippet that runs without a fault and does not bind result yields
\* the fixed no-result error, whatever else it bound.
C10_NoResultError ==
  (/\ IsExecutorCall
   /\ tool_call.fs.state = "ok"
   /\ tool_call.args.python_code.fault = "none"
   /\ "result" \notin tool_call.args.python_code.binds)
    => tool_result = Return(NoResultError)

\* C10 witness: a fault-free snippet that bound total, and not result, was run.
C10_Witness ==
  /\ IsExecutorCall
  /\ tool_call.fs.state = "ok"
  /\ tool_call.args.python_code.fault = "none"
  /\ tool_call.args.python_code.binds = {"total"}
  /\ tool_result = Return(NoResultError)

\* C11: after a fault-free snippet that binds result, the executor dispatches
\* on the shape of the value: None yields the fixed warning, which is neither
\* the no-result error nor the execution diagnostic; a DataFrame goes to
\* format_dataframe_output, a Series to format_series_output, a number to
\* format_scalar_output, and any other value is returned as its str().
C11_ResultDispatch ==
  (/\ IsExecutorCall
   /\ tool_call.fs.state = "ok"
   /\ tool_call.args.python_code.fault = "none"
   /\ "result" \in tool_call.args.python_code.binds)
    => LET c == tool_call.args.python_code
           formatted(by) == Return([kind |-> "formatted", by |-> by])
       IN /\ NoneWarning # NoResultError
          /\ NoneWarning.kind # except_block(Raise("Exception", "exit")).value.kind
          /\ (c.shape = "None") => tool_result = Return(NoneWarning)
          /\ (c.shape = "DataFrame" /\ ~c.fmt_fault)
               => tool_result = formatted("format_dataframe_output")
          /\ (c.shape = "Series" /\ ~c.fmt_fault)
               => tool_result = formatted("format_series_output")
          /\ (c.shape = "number" /\ ~c.fmt_fault)
               => tool_result = formatted("format_scalar_output")
          /\ (c.shape = "other" /\ ~c.fmt_fault)
               => tool_result = formatted("str")

\* C11 witness: a fault-free snippet bound a Series to result and the call
\* returned what format_series_output made of it.
C11_Witness ==
  /\ IsExecutorCall
  /\ tool_call.fs.state = "ok"
  /\ tool_call.args.python_code.fault = "none"
  /\ tool_call.args.python_code.binds = {"result", "total"}
  /\ tool_call.args.python_code.shape = "Series"
  /\ tool_result = Return([kind |-> "formatted", by |-> "format_series_output"])

\* The lookup that was applied, and what the files held for it.
IsLookup == tool_call.name = "get_customer_orders"
CustomerIds == {customers_csv[i].customer_id : i \in 1..Len(customers_csv)}
\* The rows of orders.csv whose customer_id is id, in file order.
OrdersIn(orders, id) == SelectSeq(orders, LAMBDA o : o.customer_id = id)
IsOrderReport ==
  /\ IsLookup
  /\ ~tool_result.raised
  /\ tool_result.value.kind = "orders"

\* C12: every block get_customer_orders renders carries the delay flag iff
\* the order's status is not Delivered, its est_delivery is known, and
\* today's date is after est_delivery.
C12_DelayFlagByDate ==
  IsOrderReport =>
    \A i \in 1..Len(tool_result.value.blocks) :
      LET b == tool_result.value.blocks[i]
      IN b.delayed <=> /\ b.status # "Delivered"
                       /\ b.est_delivery # NaT
                       /\ tool_call.now.day > b.est_delivery

C14_NotFound ==
  (/\ IsLookup
   /\ tool_call.fs.state = "ok"
   /\ strip_upper(tool_call.args.customer_id) \notin CustomerIds)
    => /\ ~tool_result.raised
       /\ DOMAIN tool_result.value = {"kind", "id"}
       /\ tool_result.value.kind = "ERROR: Customer ID not found"
       /\ tool_result.value.id = strip_upper(tool_call.args.customer_id)
       /\ tool_call.args.customer_id = " cust_999 " => tool_result.value.id = "CUST_999"

\* C14 witness: " cust_999 " was looked up while orders.csv held an order of
\* CUST_999, and the not-found text came back.
C14_Witness ==
  /\ IsLookup
  /\ tool_call.args.customer_id = " cust_999 "
  /\ tool_call.fs.state = "ok"
  /\ OrdersIn(tool_call.fs.orders, "CUST_999") # << >>
  /\ tool_result = Return([kind |-> "ERROR: Customer ID not found", id |-> "CUST_999"])

\* C15: every order a report renders is an order whose customer_id equals
\* the normalized identifier (the one the report is headed with); no order
\* of another customer appears.
C15_OnlyOwnOrders ==
  IsOrderReport =>
    /\ tool_result.value.id = strip_upper(tool_call.args.customer_id)
    /\ tool_call.args.customer_id = "cust_001" => tool_result.value.id = "CUST_001"
    /\ \A i \in 1..Len(tool_result.value.blocks) :
         \E j \in 1..Len(tool_call.fs.orders) :
           /\ tool_call.fs.orders[j].order_id = tool_result.value.blocks[i].order_id
           /\ tool_call.fs.orders[j].customer_id = tool_result.value.id

\* C15 witness: orders.csv held an order of CUST_001 and one of CUST_999, and
\* the report for "cust_001" rendered the first alone.
C15_Witness ==
  /\ IsOrderReport
  /\ tool_call.args.customer_id = "cust_001"
  /\ Len(tool_call.fs.orders) = 2
  /\ tool_call.fs.orders[1].customer_id = "CUST_001"
  /\ tool_call.fs.orders[2].customer_id = "CUST_999"
  /\ Len(tool_result.value.blocks) = 1
  /\ tool_result.value.blocks[1].order_id = "O1"

\* The delay audit that was applied, and the orders it should report: those
\* with a known est_delivery before the day of the call and a status that is
\* neither Delivered nor Cancelled, by their positions in orders.csv.
IsDelayAudit ==
  /\ tool_call.name = "check_for_critical_delays"
  /\ tool_call.fs.state = "ok"
Overdue ==
  {i \in 1..Len(tool_call.fs.orders) :
     /\ tool_call.fs.orders[i].est_delivery # NaT
     /\ tool_call.fs.orders[i].est_delivery < tool_call.now.day
     /\ tool_call.fs.orders[i].status \notin {"Delivered", "Cancelled"}}
IsAlert ==
  /\ ~tool_result.raised
  /\ tool_result.value.kind = "ALERT: orders are critically delayed"

\* C16: check_for_critical_delays returns the ALERT line iff some order has a
\* known est_delivery strictly before today and a status that is neither
\* Delivered nor Cancelled; the count it reports is the number of such
\* orders, and otherwise it returns the SUCCESS line.
C16_AlertIffOverdue ==
  IsDelayAudit =>
    /\ (Overdue # {}) => (IsAlert /\ tool_result.value.count = Cardinality(Overdue))
    /\ (Overdue = {})
         => tool_result = Return([kind |-> "SUCCESS: No critical delivery delays found"])

\* C16 witness: an ALERT counting one order, for a table that also holds an
\* overdue Cancelled order and a Pending order due today.
C16_Witness ==
  /\ IsDelayAudit
  /\ IsAlert
  /\ tool_result.value.count = 1
  /\ \E i, j \in 1..Len(tool_call.fs.orders) :
       /\ tool_call.fs.orders[i].status = "Cancelled"
       /\ tool_call.fs.orders[i].est_delivery = tool_call.now.day - 1
       /\ tool_call.fs.orders[j].status = "Pending"
       /\ tool_call.fs.orders[j].est_delivery = tool_call.now.day

\* The positions of the overdue Pending orders.
OverduePending == {i \in Overdue : tool_call.fs.orders[i].status = "Pending"}

\* C17 (as claimed): when orders are Pending with est_delivery in the past,
\* the audit returns the ALERT line and names the id of each of them among
\* the affected orders it lists, of which there are at most three.
C17_EveryOverduePendingNamed ==
  (IsDelayAudit /\ OverduePending # {}) =>
    /\ IsAlert
    /\ Len(tool_result.value.orders) <= 3
    /\ \A i \in OverduePending :
         \E k \in 1..Len(tool_result.value.orders) :
           tool_result.value.orders[k] = tool_call.fs.orders[i].order_id

\* C17 (amended): when orders are Pending with est_delivery in the past, the
\* audit returns the ALERT line; the affected orders it lists are the first
\* three overdue orders in file order (all of them when there are fewer), so
\* an overdue Pending order is named iff fewer than three overdue orders
\* precede it in orders.csv.
C17_FirstThreeOverdueNamed ==
  (IsDelayAudit /\ OverduePending # {}) =>
    /\ IsAlert
    /\ Len(tool_result.value.orders) <= 3
    /\ Len(tool_result.value.orders) =
         IF Cardinality(Overdue) < 3 THEN Cardinality(Overdue) ELSE 3
    /\ \A i \in OverduePending :
         (\E k \in 1..Len(tool_result.value.orders) :
            tool_result.value.orders[k] = tool_call.fs.orders[i].order_id)
           <=> Cardinality({j \in Overdue : j < i}) < 3

\* C17 witness: four overdue orders, the fourth Pending, and an ALERT that
\* counts four and lists the first three.
C17_Witness ==
  /\ IsDelayAudit
  /\ IsAlert
  /\ Cardinality(Overdue) = 4
  /\ 4 \in OverduePending
  /\ tool_result.value.count = 4
  /\ tool_result.value.orders = << "O1", "O2", "O3" >>

\* The revenue audit that was applied to a table of at least five rows, and
\* the rows the outlier model flagged.
IsRevenueAudit ==
  /\ tool_call.name = "check_for_revenue_anomalies"
  /\ tool_call.fs.state = "ok"
  /\ Len(tool_call.fs.revenue) >= MinRevenueRows
Flagged == {i \in 1..Len(tool_call.fs.revenue) : tool_call.predict[i] = -1}

\* C18: on at least five revenue rows of which the outlier model flags some,
\* the CRITICAL line reports the date, amount and order id of a flagged row
\* with the latest date among the flagged rows, however revenue.csv is
\* ordered; when no row is flagged the SUCCESS line is returned.
C18_ReportsLatestFlagged ==
  IsRevenueAudit =>
    /\ (Flagged = {})
         => tool_result =
              Return([kind |-> "SUCCESS: No significant revenue anomalies detected"])
    /\ (Flagged # {})
         => /\ ~tool_result.raised
            /\ tool_result.value.kind = "CRITICAL REVENUE ANOMALY"
            /\ \E i \in Flagged :
                 /\ \A j \in Flagged :
                      tool_call.fs.revenue[j].date <= tool_call.fs.revenue[i].date
                 /\ tool_result.value.date = tool_call.fs.revenue[i].date
                 /\ tool_result.value.amount = tool_call.fs.revenue[i].amount
                 /\ tool_result.value.order_id = tool_call.fs.revenue[i].order_id

\* The notification check that was applied.
IsStatusCheck == tool_call.name = "check_customer_order_status"

\* C19: for every customer id and state of the files,
\* check_customer_order_status returns a record whose status is delayed,
\* normal or error and which has a message and a count; the status is delayed
\* iff an order of that customer has a known est_delivery strictly before
\* today and a status that is neither Delivered nor Cancelled.
C19_StatusRecord ==
  IsStatusCheck =>
    /\ ~tool_result.raised
    /\ tool_result.value.status \in {"delayed", "normal", "error"}
    /\ {"message", "count"} \subseteq DOMAIN tool_result.value
    /\ (tool_result.value.status = "delayed")
         <=> /\ tool_call.fs.state = "ok"
             /\ \E i \in 1..Len(tool_call.fs.orders) :
                  LET o == tool_call.fs.orders[i]
                  IN /\ o.customer_id = strip_upper(tool_call.args.customer_id)
                     /\ o.est_delivery # NaT
                     /\ o.est_delivery < tool_call.now.day
                     /\ o.status \notin {"Delivered", "Cancelled"}

\* The formatter was given a table: a DataFrame or a Series.
IsTableFormat ==
  /\ tool_call.name = "format_dataframe_output"
  /\ tool_call.args.df.type \in {"DataFrame", "Series"}
TotalRows ==
  IF tool_call.args.df.type = "DataFrame" THEN Len(tool_call.args.df.rows)
  ELSE Len(tool_call.args.df.values)

\* C20: for every table and display cap, format_dataframe_output puts the
\* total number of rows in its header, renders min(total, cap) record blocks,
\* and ends with the 'more records' line, naming total - cap, exactly when
\* total exceeds cap.
C20_TotalBlocksAndSuffix ==
  IsTableFormat =>
    LET cap == tool_call.args.max_rows
        out == tool_result.value
    IN /\ ~tool_result.raised
       /\ out.kind = "table"
       /\ out.total = TotalRows
       /\ Len(out.blocks) = IF TotalRows < cap THEN TotalRows ELSE cap
       /\ (TotalRows > cap) <=> (out.more # << >>)
       /\ (TotalRows > cap) => out.more = << TotalRows - cap >>

\* C20 witness: a frame of three rows was formatted under a cap of two: two
\* blocks and a suffix naming one more record.
C20_Witness ==
  /\ IsTableFormat
  /\ tool_call.args.df.type = "DataFrame"
  /\ TotalRows = 3
  /\ tool_call.args.max_rows = 2
  /\ tool_result.value.total = 3
  /\ Len(tool_result.value.blocks) = 2
  /\ tool_result.value.more = << 1 >>

\* The frame the formatter renders: the table it was given, a Series as the
\* one-column frame to_frame() makes of it.
FormattedFrame ==
  IF tool_call.args.df.type = "Series" THEN to_frame(tool_call.args.df)
  ELSE tool_call.args.df

\* C21: every field of every displayed record is rendered by type: an absent
\* value (None, nan, NaT) of any column as N/A; a date as YYYY-MM-DD; a
\* number, int or float, of a column named after amount, price or revenue as
\* currency with two decimals; any other number with two decimals.
C21_FieldRendering ==
  IsTableFormat =>
    \A i \in 1..Len(tool_result.value.blocks) :
      \A j \in 1..Len(FormattedFrame.columns) :
        LET cell == FormattedFrame.rows[i][j]
            col == FormattedFrame.columns[j]
            field == tool_result.value.blocks[i].fields[j]
            absent == \/ cell.t = "NoneType"
                      \/ cell.t \in {"float", "Timestamp"} /\ cell.v = NaN
            numeric == cell.t \in {"int", "float"}
            money == col.name \in {"amount", "price", "revenue"}
        IN /\ absent => field.fmt = "N/A"
           /\ (~absent /\ col.dtype = "datetime64")
                => (field.fmt = "%Y-%m-%d" /\ field.v = cell.v)
           /\ (~absent /\ numeric /\ money)
                => (field.fmt = "$,.2f" /\ field.v = cell.v)
           /\ (~absent /\ numeric /\ ~money)
                => (field.fmt = ".2f" /\ field.v = cell.v)

\* The scalar formatter was given a value the executor dispatches to it.
IsScalarFormat == tool_call.name = "format_scalar_output"
IsNumberFormat ==
  /\ IsScalarFormat
  /\ is_number(tool_call.args.value)
  /\ tool_call.args.value.t # "bool"

\* C22 (as claimed): every number the executor dispatches to
\* format_scalar_output, an int or a float of Python or of numpy, is emitted
\* as currency (dollar sign, thousands separators, two decimals); a text is
\* emitted raw.
C22_EveryNumberAsCurrency ==
  /\ IsNumberFormat
       => (tool_result.value.fmt = "$,.2f"
           /\ tool_result.value.v = tool_call.args.value.v)
  /\ (IsScalarFormat /\ tool_call.args.value.t = "str")
       => (tool_result.value.fmt = "raw"
           /\ tool_result.value.s = tool_call.args.value.s)

\* C22 (amended): of the numbers the executor dispatches to
\* format_scalar_output, a float (Python float or numpy float64) is emitted as
\* currency; a Python int is emitted with thousands separators only, without
\* dollar sign or decimals; a numpy integer and a numpy float that is no
\* float64 are emitted raw, as a text is.
C22_FloatsAsCurrency ==
  /\ IsNumberFormat
       => /\ tool_result.value.v = tool_call.args.value.v
          /\ tool_result.value.fmt =
               CASE tool_call.args.value.t \in {"float", "numpy.float64"} -> "$,.2f"
                 [] tool_call.args.value.t = "int" -> ","
                 [] OTHER -> "raw"
  /\ (IsScalarFormat /\ tool_call.args.value.t = "str")
       => (tool_result.value.fmt = "raw"
           /\ tool_result.value.s = tool_call.args.value.s)

\* C22 witness: the Python int 1234567 was emitted with thousands separators
\* and no dollar sign.
C22_Witness ==
  /\ IsNumberFormat
  /\ tool_call.args.value = Num("int", 1234567)
  /\ tool_result = Return([kind |-> "scalar", fmt |-> ",", v |-> 1234567])

\* What get_customer_orders returns for the identifier, files and instant of
\* the call that was applied, and whether it renders a DELAYED flag.
SameLookup ==
  get_customer_orders(tool_call.args.customer_id, tool_call.fs, tool_call.now)
RendersDelayed(r) ==
  /\ ~r.raised
  /\ r.value.kind = "orders"
  /\ \E i \in 1..Len(r.value.blocks) : r.value.blocks[i].delayed

\* C25: for the same identifier, files and instant, the status of
\* check_customer_order_status is delayed iff get_customer_orders renders at
\* least one DELAYED flag.
C25_NotificationAgreesWithReport ==
  IsStatusCheck =>
    ((tool_result.value.status = "delayed") <=> RendersDelayed(SameLookup))

\* C26: a block that carries the DELAYED flag prints at least one day overdue.
C26_DelayedByAtLeastOneDay ==
  IsOrderReport =>
    \A i \in 1..Len(tool_result.value.blocks) :
      tool_result.value.blocks[i].delayed => tool_result.value.blocks[i].days_late >= 1

\* ---------------------------------------------------------------- C27
\* A history alternates: its odd entries are the user's, its even entries the
\* assistant's, and its last entry is the assistant's.
Alternates(history) ==
  /\ \A i \in 1..Len(history) :
       history[i].role = (IF i % 2 = 1 THEN "user" ELSE "assistant")
  /\ Len(history) % 2 = 0

\* C27: after any sequence of chat turns, the turns aborted by a fault of the
\* model invocation included, each role's history strictly alternates between
\* user and assistant entries, starting with a user entry and ending with an
\* assistant entry.
C27_HistoriesAlternate ==
  pc \in {"idle", "returned", "aborted"} =>
    Alternates(customer_history) /\ Alternates(business_history)

\* ---------------------------------------------------------------- C28
\* Nobody is logged in on the selector and authentication pages: the pages
\* before the first login and between a logout and the next login.
LoggedOut == page \in {"selector", "auth"}

\* C28: after a logout all session state is back to its initial values before
\* the next login: the authenticated user, the customer id, both histories, the
\* audit log, the notification flag, the revenue and delay alert statuses and
\* the stored raw model response.
C28_LogoutResetsSession ==
  LoggedOut =>
    /\ authenticated_user = None
    /\ customer_id = None
    /\ customer_history = << >>
    /\ business_history = << >>
    /\ audit_log = << >>
    /\ notification_shown = FALSE
    /\ revenue_alert_status = PendingAudit
    /\ delay_alert_status = PendingAudit
    /\ last_raw_response = NoRawResponse

\* What the logout does reset.
C28_LogoutResetsLogin ==
  LoggedOut =>
    /\ authenticated_user = None
    /\ customer_id = None
    /\ customer_history = << >>
    /\ business_history = << >>
    /\ audit_log = << >>
    /\ notification_shown = FALSE

\* A business session was logged out after its audits had run.
C28_AfterBusinessLogout == LoggedOut /\ revenue_alert_status # PendingAudit

\* ---------------------------------------------------------------- C29
\* The role a chat page is for.
PageRole == [customer_chat |-> "customer", business_chat |-> "business"]

\* C29: the page is customer_chat or business_chat only if an authenticated
\* user is set and the role stored for that user in the credential store
\* equals the page's role; the customer id is non-null only while a user of
\* the customer role is authenticated.
C29_ChatPageOnlyForItsRole ==
  /\ page \in DOMAIN PageRole =>
       /\ authenticated_user # None
       /\ authenticated_user \in DOMAIN CREDENTIALS
       /\ CREDENTIALS[authenticated_user].role = PageRole[page]
  /\ customer_id # None =>
       /\ authenticated_user # None
       /\ CREDENTIALS[authenticated_user].role = "customer"

\* A customer is on the customer chat page, with their customer id.
C29_Witness ==
  /\ page = "customer_chat" /\ notification_shown
  /\ authenticated_user = "alice" /\ customer_id = "CUST_001"

\* ---------------------------------------------------------------- C30
\* The status is an error string of the loader.
IsLoaderError(status) ==
  status.kind \in {"Error: Required data file not found", "Error loading data"}

\* The business dashboard shows both audits as normal.
ShownAsNormal ==
  /\ notifications(revenue_alert_status, delay_alert_status) =
       << [type |-> "success", title |-> "Revenue Status",
           message |-> "Revenue metrics normal"],
          [type |-> "success", title |-> "Logistics Status",
           message |-> "All deliveries on schedule"] >>
  /\ live_status(revenue_alert_status, delay_alert_status) =
       [revenue |-> "Normal", logistics |-> "Normal"]

DashboardOnLoadFailure ==
  /\ page = "business_chat" /\ notification_shown
  /\ IsLoaderError(revenue_alert_status)
  /\ IsLoaderError(delay_alert_status)

\* C30: when the dataset fails to load, both audits return the loader's error
\* string, which carries neither the CRITICAL nor the ALERT keyword, so the
\* business dashboard classifies both audits as normal (revenue metrics normal,
\* all deliveries on schedule).
C30_LoadFailureShownAsNormal ==
  /\ \A fs \in DashFiles :
       is_load_error(load_data(fs)) =>
         /\ \A predict \in Predictions(Len(fs.revenue)) :
              check_for_revenue_anomalies(fs, predict) = Return(load_data(fs))
         /\ check_for_critical_delays(fs, Clock) = Return(load_data(fs))
  /\ DashboardOnLoadFailure =>
       /\ ~has_keyword(revenue_alert_status, "CRITICAL")
       /\ ~has_keyword(delay_alert_status, "ALERT")
       /\ ShownAsNormal

\* A failed load whose exception text holds no keyword is shown as normal.
C30_PlainFailureShownAsNormal ==
  /\ DashboardOnLoadFailure
  /\ "cell" \notin DOMAIN delay_alert_status.e
  => ShownAsNormal

\* ---------------------------------------------------------------- C23
\* The last call was made while the files could not be loaded.
CalledOnLoadFailure ==
  /\ tool_call # NoCall
  /\ "fs" \in DOMAIN tool_call
  /\ tool_call.fs.state \in {"missing", "malformed"}

\* The error string load_data builds for the files of the last call.
LoaderFailure ==
  [kind |-> IF tool_call.fs.state = "missing"
              THEN "Error: Required data file not found"
              ELSE "Error loading data",
   e |-> exception_text(tool_call.fs)]

\* C23: whenever the loader fails (a missing or malformed source), each of
\* the six functions that call it (get_customer_orders,
\* execute_pandas_code_business, check_for_revenue_anomalies,
\* check_for_critical_delays, check_customer_order_status, get_data_schema)
\* returns the failure without raising and without touching a table: the
\* loader's error string, or for check_customer_order_status the error-status
\* record; the executor does not run the snippet.
C23_LoadFailureReturned ==
  CalledOnLoadFailure =>
    /\ ~tool_result.raised
    /\ tool_result.value =
         IF tool_call.name = "check_customer_order_status"
           THEN [status |-> "error", message |-> [kind |-> "Unable to load data"]]
           ELSE LoaderFailure
    /\ memory.loaded = LoaderFailure
    /\ memory.tables = NoTables
    /\ ~memory.executed

\* C23 witness: get_data_schema returned the error string of a missing file.
C23_Witness ==
  /\ tool_call.name = "get_data_schema"
  /\ tool_call.fs.state = "missing"
  /\ tool_result = Return([kind |-> "Error: Required data file not found",
                           e |-> [text |-> "[Errno 2] No such file or directory",
                                  filename |-> "customers.csv"]])

\* ---------------------------------------------------------------- C24
\* What the four files of the last call hold.
FromFiles ==
  [customers_df |-> customers_csv, orders_df |-> tool_call.fs.orders,
   products_df |-> products_csv, revenue_df |-> tool_call.fs.revenue]

\* The call before the last one left a table changed in memory: orders_df
\* without its rows, or revenue_df with the anomaly column.
ChangedBefore ==
  /\ memory.before # NoTables
  /\ \/ memory.before.orders_df = << >>
     \/ /\ memory.before.revenue_df # << >>
        /\ "anomaly" \in DOMAIN memory.before.revenue_df[1]

\* C24: across any sequence of tool invocations, a change one invocation made
\* in memory to a loaded table (a snippet that mutates a table, the anomaly
\* check adding its anomaly column) is never observable by a later one: each
\* invocation works on a bundle freshly loaded from the files, so the delay
\* audit alerts exactly when the orders file holds an overdue open order and
\* the revenue audit reads the rows of the revenue file.
C24_FreshBundlePerInvocation ==
  (tool_call # NoCall /\ "fs" \in DOMAIN tool_call /\ tool_call.fs.state = "ok") =>
    /\ memory.loaded = FromFiles
    /\ tool_call.name = "check_for_critical_delays" => (IsAlert <=> Overdue # {})
    /\ tool_call.name = "check_for_revenue_anomalies" =>
         (tool_result.value.kind = "Not enough data points to run anomaly detection"
            <=> Len(tool_call.fs.revenue) < MinRevenueRows)

\* C24 witness: the delay audit alerts on an overdue order of the file, after
\* a snippet that had dropped every row of its orders_df.
C24_Witness ==
  /\ tool_call.name = "check_for_critical_delays"
  /\ tool_call.fs.state = "ok"
  /\ ChangedBefore /\ memory.before.orders_df = << >>
  /\ Overdue # {} /\ IsAlert

====
